---- MODULE Spec2Model ----
(***************************************************************************)
(* Standings engine of the TFT tournament tracker: the game_results        *)
(* ledger, the tournament_stats snapshot, the aggregation, the tiebreak    *)
(* comparator, the recalculation and the three ledger handlers             *)
(* (backend/controllers/statistics.js, backend/controllers/gameResults.js).*)
(***************************************************************************)
EXTENDS Integers, Sequences, FiniteSets, TLC

VARIABLES
    game_results,      \* table game_results: a set of fact rows
    tournament_stats,  \* table tournament_stats: a set of standing rows
    tournaments,       \* table tournaments: tournament id -> status
    nextId,            \* AUTOINCREMENT counter of game_results.id
    now,               \* the last CURRENT_TIMESTAMP the database handed out
    response,          \* HTTP status of the last handler call (0: none yet)
    recalc,            \* outcome of the last call of recalculateStatsInternal
    ret,               \* what that call returned (<<>> when it threw)
    recalcRuns,        \* completed recalculations in a row over an unchanged ledger
    writes,            \* calls that wrote to the database so far
    pc,                \* overlapping handlers: where each one stands
    local,             \* overlapping handlers: the local variables of each one
    request,           \* the request of the last handler call, where it is kept
    pair,              \* comparator check: the two players handed to the sort
    sorted,            \* comparator check: what the sort returned for them
    triple,            \* comparator check: three players to compare
    cmp,               \* comparator check: compare(triple[i], triple[j])
    monitorStore,      \* KV entry monitor_<tournamentId> of TOURNAMENT_DATA
    wallClock          \* new Date(): half days since the epoch of the model

dbvars  == <<game_results, tournament_stats, tournaments, nextId, now>>
outvars == <<response, recalc, ret, recalcRuns>>
concvars == <<pc, local>>
cmpvars == <<pair, sorted, triple, cmp>>
logvars == <<request>>
monvars == <<monitorStore, wallClock>>
vars    == <<game_results, tournament_stats, tournaments, nextId, now,
             response, recalc, ret, recalcRuns, writes, pc, local,
             request, pair, sorted, triple, cmp, monitorStore, wallClock>>

----------------------------------------------------------------------------
(* Bounds of the model *)

MaxWrites  == 3     \* handler calls that write to game_results in one behaviour
MaxClock   == 1     \* CURRENT_TIMESTAMP ranges over 0..MaxClock
MaxRuns    == 2     \* recalcRuns saturates here
MaxConcWrites == 2  \* ledger writes of overlapping handlers in one behaviour
MaxLogWrites == 2   \* ledger writes in a behaviour that keeps the requests
MaxGames   == 2     \* games in a history drawn over all eight placements
MaxLongGames == 6   \* games in a history drawn over two placements
MaxOrdGames == 2    \* games in a history of the three-player comparison
MaxRaceWrites == 4  \* ledger writes of handlers in flight on one game
MaxTicks == 4              \* the wall clock stops after this many half days
MaxMonPlayers == 5         \* players of the monitored tournament

(* Program constants *)

LobbySize    == 8   \* data.results.length !== 8
MaxPlacement == 8   \* placement < 1 || placement > 8
Sentinel     == 9   \* ...?.placement || 9
PointsBase   == 9   \* calculatePoints = 9 - placement

Tournaments == {1}                  \* the tournament the requests address
OtherTournament == 2                \* a second tournament, where there is one
Handlers   == {1, 2}                \* requests in flight at the same time
Players    == 1..LobbySize          \* registered tournament_participants
Stranger   == LobbySize + 1         \* a player that is not a participant

----------------------------------------------------------------------------
(* Small helpers *)

Min(S) == CHOOSE x \in S : \A y \in S : x <= y
Max(S) == CHOOSE x \in S : \A y \in S : x >= y

Front(s) == SubSeq(s, 1, Len(s) - 1)

\* a function on 1..n as a sequence value
AsSeq(f) == f \o <<>>

----------------------------------------------------------------------------
(* Numbers.  A placement is a JavaScript number in the handlers and a value *)
(* of a column of INTEGER affinity in the ledger, which stores a number     *)
(* with a fractional part as it is.  An integer stands for itself; a number *)
(* n/4 that is not an integer is carried as FracBase + n, and its negative  *)
(* as -(FracBase + n).  The integers of the model stay below FracBase.      *)

FracBase == 1000

\* the number n/4, for n > 0 that 4 does not divide
Quarters(n) == FracBase + n

\* four times a number: an integer
Fourfold(x) ==
    IF x >= FracBase THEN x - FracBase
    ELSE IF x <= -FracBase THEN x + FracBase
    ELSE 4 * x

\* the number that n is four times of
Quartered(n) ==
    IF n % 4 = 0 THEN n \div 4
    ELSE IF n > 0 THEN FracBase + n
    ELSE -(FracBase - n)

\* x + y, x - y and x < y of JavaScript and of SQLite
Plus(x, y)  == Quartered(Fourfold(x) + Fourfold(y))
Minus(x, y) == Quartered(Fourfold(x) - Fourfold(y))
Less(x, y)  == Fourfold(x) < Fourfold(y)

----------------------------------------------------------------------------
(* calculateTournamentStats *)

\* ORDER BY player_id, day_number, game_number
\* (the three columns are UNIQUE within a tournament: no two rows tie)
QueryKeyLT(x, y) ==
    \/ x.player_id < y.player_id
    \/ /\ x.player_id = y.player_id
       /\ \/ x.day_number < y.day_number
          \/ x.day_number = y.day_number /\ x.game_number < y.game_number

OrderBy(S) ==
    LET before == [x \in S |-> Cardinality({y \in S : QueryKeyLT(y, x)})]
                  @@ <<>>
    IN  AsSeq([i \in 1..Cardinality(S) |->
                   CHOOSE x \in S : before[x] = i - 1])

\* SELECT ... FROM game_results WHERE tournament_id = ? ORDER BY ...
SelectGameResults(t, ledger) ==
    OrderBy({r \in ledger : r.tournament_id = t})

placementChecks ==
    <<"first_places", "second_places", "third_places", "fourth_places",
      "fifth_places", "sixth_places", "seventh_places", "eighth_places">>

recentGameChecks ==
    <<"last_game_placement", "second_last_game_placement",
      "third_last_game_placement", "fourth_last_game_placement",
      "fifth_last_game_placement">>

NewPlayerStats(p) ==
    [player_id |-> p, total_points |-> 0, games_played |-> 0,
     first_places |-> 0, second_places |-> 0, third_places |-> 0,
     fourth_places |-> 0, fifth_places |-> 0, sixth_places |-> 0,
     seventh_places |-> 0, eighth_places |-> 0,
     top_four_count |-> 0, top_four_plus_firsts |-> 0,
     game_history |-> <<>>]

\* the body of gameResults.results.forEach for one result row
AccumulateResult(stats, result) ==
    LET s1 == [stats EXCEPT !.total_points = Plus(@, result.points),
                            !.games_played = @ + 1]
        s2 == IF result.placement \in 1..MaxPlacement
              THEN [s1 EXCEPT ![placementChecks[result.placement]] = @ + 1]
              ELSE s1
        s3 == IF result.placement \in 1..4
              THEN [s2 EXCEPT !.top_four_count = @ + 1]
              ELSE s2
    IN  [s3 EXCEPT !.game_history =
            Append(@, [day |-> result.day_number, game |-> result.game_number,
                       placement |-> result.placement,
                       created_at |-> result.created_at])]

\* playerStats[p] once forEach has passed over the results: the rows of p
\* accumulated, in query order, into the object created at p's first row
RECURSIVE AccumulateResults(_, _)
AccumulateResults(p, results) ==
    IF results = <<>> THEN NewPlayerStats(p)
    ELSE AccumulateResult(AccumulateResults(p, Front(results)),
                          results[Len(results)])

ResultsOf(results, p) ==
    LET idx == {i \in DOMAIN results : results[i].player_id = p}
    IN  AsSeq([k \in 1..Cardinality(idx) |->
            results[CHOOSE i \in idx :
                        Cardinality({j \in idx : j < i}) = k - 1]])

GroupByPlayer(results) ==
    [p \in {results[i].player_id : i \in DOMAIN results} |->
        AccumulateResults(p, ResultsOf(results, p))]

\* new Date(created_at): milliseconds of a timestamp with second resolution
DateMs(ts) == ts * 1000

\* a comparator that puts the oldest game first
HistoryCompareOldestFirst(a, b) == DateMs(a.created_at) - DateMs(b.created_at)

\* game_history.sort((a, b) => new Date(b.created_at) - new Date(a.created_at))
HistoryCompare(a, b) == DateMs(b.created_at) - DateMs(a.created_at)

RECURSIVE InsertHistory(_, _)
InsertHistory(s, g) ==
    IF s = <<>> THEN <<g>>
    ELSE IF HistoryCompare(s[Len(s)], g) <= 0 THEN Append(s, g)
    ELSE Append(InsertHistory(Front(s), g), s[Len(s)])

RECURSIVE SortHistory(_)
SortHistory(s) ==
    IF s = <<>> THEN <<>>
    ELSE InsertHistory(SortHistory(Front(s)), s[Len(s)])

\* game_history[i]?.placement || 9   (i counted from 1 here)
RecentPlacement(history, i) ==
    IF i <= Len(history) /\ history[i].placement # 0
    THEN history[i].placement ELSE Sentinel

\* the placement of the game recorded last
EndOfDayIsLastRecorded(history) == RecentPlacement(history, 1)

\* the game of the most recent day with the lowest game number
EndOfDayIsFirstGame(history) ==
    IF history = <<>> THEN Sentinel
    ELSE LET lastDay      == Max({history[i].day : i \in 1..Len(history)})
             lastDayGames == {history[i] : i \in {j \in 1..Len(history) :
                                                   history[j].day = lastDay}}
             firstGame    == Min({g.game : g \in lastDayGames})
             firstGameOfDay == CHOOSE g \in lastDayGames : g.game = firstGame
         IN  IF firstGameOfDay.placement # 0 THEN firstGameOfDay.placement
             ELSE Sentinel

\* last game of the most recent day
EndOfDayPlacement(history) ==
    IF history = <<>> THEN Sentinel
    ELSE LET lastDay      == Max({history[i].day : i \in 1..Len(history)})
             lastDayGames == {history[i] : i \in {j \in 1..Len(history) :
                                                   history[j].day = lastDay}}
             lastGame     == Max({g.game : g \in lastDayGames})
             lastGameOfDay == CHOOSE g \in lastDayGames : g.game = lastGame
         IN  IF lastGameOfDay.placement # 0 THEN lastGameOfDay.placement
             ELSE Sentinel

\* the body of Object.values(playerStats).forEach
DeriveStats(stats) ==
    LET history == SortHistory(stats.game_history)
    IN  [last_game_placement        |-> RecentPlacement(history, 1),
         second_last_game_placement |-> RecentPlacement(history, 2),
         third_last_game_placement  |-> RecentPlacement(history, 3),
         fourth_last_game_placement |-> RecentPlacement(history, 4),
         fifth_last_game_placement  |-> RecentPlacement(history, 5),
         end_of_day_placement       |-> EndOfDayPlacement(history)]
        @@ [stats EXCEPT !.top_four_plus_firsts =
                             stats.top_four_count + stats.first_places,
                         !.game_history = history]

\* Object.values of an object with integer keys: ascending key order
ObjectValues(obj) ==
    AsSeq([i \in 1..Cardinality(DOMAIN obj) |->
        obj[CHOOSE k \in DOMAIN obj :
                Cardinality({x \in DOMAIN obj : x < k}) = i - 1]])

calculateTournamentStats(t, ledger) ==
    LET playerStats == GroupByPlayer(SelectGameResults(t, ledger))
    IN  ObjectValues([p \in DOMAIN playerStats |-> DeriveStats(playerStats[p])])

----------------------------------------------------------------------------
(* sortPlayersByTiebreakers *)

\* compare with the placement counts read from second_places on
compareSkipsFirstPlaces(a, b) ==
    IF a.total_points # b.total_points
    THEN b.total_points - a.total_points
    ELSE IF a.top_four_plus_firsts # b.top_four_plus_firsts
    THEN b.top_four_plus_firsts - a.top_four_plus_firsts
    ELSE LET pd == {i \in DOMAIN placementChecks \ {1} :
                       a[placementChecks[i]] # b[placementChecks[i]]}
             rd == {i \in DOMAIN recentGameChecks :
                       a[recentGameChecks[i]] # b[recentGameChecks[i]]}
         IN  IF pd # {}
             THEN b[placementChecks[Min(pd)]] - a[placementChecks[Min(pd)]]
             ELSE IF rd # {}
             THEN a[recentGameChecks[Min(rd)]] - b[recentGameChecks[Min(rd)]]
             ELSE 0

\* compare with the recent placements read before the placement counts
compareRecentFirst(a, b) ==
    IF a.total_points # b.total_points
    THEN b.total_points - a.total_points
    ELSE IF a.top_four_plus_firsts # b.top_four_plus_firsts
    THEN b.top_four_plus_firsts - a.top_four_plus_firsts
    ELSE LET pd == {i \in DOMAIN placementChecks :
                       a[placementChecks[i]] # b[placementChecks[i]]}
             rd == {i \in DOMAIN recentGameChecks :
                       a[recentGameChecks[i]] # b[recentGameChecks[i]]}
         IN  IF rd # {}
             THEN a[recentGameChecks[Min(rd)]] - b[recentGameChecks[Min(rd)]]
             ELSE IF pd # {}
             THEN b[placementChecks[Min(pd)]] - a[placementChecks[Min(pd)]]
             ELSE 0

\* the comparator handed to players.sort
\* a comparator that returns the size of the difference in points, unsigned
compareUnsigned(a, b) ==
    IF a.total_points # b.total_points
    THEN IF b.total_points > a.total_points
         THEN b.total_points - a.total_points
         ELSE a.total_points - b.total_points
    ELSE IF a.top_four_plus_firsts # b.top_four_plus_firsts
    THEN b.top_four_plus_firsts - a.top_four_plus_firsts
    ELSE LET pd == {i \in DOMAIN placementChecks :
                       a[placementChecks[i]] # b[placementChecks[i]]}
             rd == {i \in DOMAIN recentGameChecks :
                       a[recentGameChecks[i]] # b[recentGameChecks[i]]}
         IN  IF pd # {}
             THEN b[placementChecks[Min(pd)]] - a[placementChecks[Min(pd)]]
             ELSE IF rd # {}
             THEN a[recentGameChecks[Min(rd)]] - b[recentGameChecks[Min(rd)]]
             ELSE 0

\* a comparator that stops after the placement counts
compareIgnoresRecent(a, b) ==
    IF a.total_points # b.total_points
    THEN b.total_points - a.total_points
    ELSE IF a.top_four_plus_firsts # b.top_four_plus_firsts
    THEN b.top_four_plus_firsts - a.top_four_plus_firsts
    ELSE LET pd == {i \in DOMAIN placementChecks :
                       a[placementChecks[i]] # b[placementChecks[i]]}
         IN  IF pd # {}
             THEN b[placementChecks[Min(pd)]] - a[placementChecks[Min(pd)]]
             ELSE 0

compare(a, b) ==
    IF a.total_points # b.total_points
    THEN Minus(b.total_points, a.total_points)
    ELSE IF a.top_four_plus_firsts # b.top_four_plus_firsts
    THEN b.top_four_plus_firsts - a.top_four_plus_firsts
    ELSE LET pd == {i \in DOMAIN placementChecks :
                       a[placementChecks[i]] # b[placementChecks[i]]}
             rd == {i \in DOMAIN recentGameChecks :
                       a[recentGameChecks[i]] # b[recentGameChecks[i]]}
         IN  IF pd # {}
             THEN b[placementChecks[Min(pd)]] - a[placementChecks[Min(pd)]]
             ELSE IF rd # {}
             THEN Minus(a[recentGameChecks[Min(rd)]],
                        b[recentGameChecks[Min(rd)]])
             ELSE 0

\* an insertion that puts a player before the players it compares equal to
RECURSIVE InsertPlayerBeforeEquals(_, _)
InsertPlayerBeforeEquals(s, x) ==
    IF s = <<>> THEN <<x>>
    ELSE IF compare(s[Len(s)], x) < 0 THEN Append(s, x)
    ELSE Append(InsertPlayerBeforeEquals(Front(s), x), s[Len(s)])

\* Array.prototype.sort is stable; on arrays this short it is an insertion sort
RECURSIVE InsertPlayer(_, _)
InsertPlayer(s, x) ==
    IF s = <<>> THEN <<x>>
    ELSE IF compare(s[Len(s)], x) <= 0 THEN Append(s, x)
    ELSE Append(InsertPlayer(Front(s), x), s[Len(s)])

RECURSIVE SortPlayers(_)
SortPlayers(s) ==
    IF s = <<>> THEN <<>>
    ELSE InsertPlayer(SortPlayers(Front(s)), s[Len(s)])

\* a sort whose comparator looks at total_points alone
RECURSIVE InsertByPoints(_, _)
InsertByPoints(s, x) ==
    IF s = <<>> THEN <<x>>
    ELSE IF s[Len(s)].total_points >= x.total_points THEN Append(s, x)
    ELSE Append(InsertByPoints(Front(s), x), s[Len(s)])

RECURSIVE sortPlayersByPointsOnly(_)
sortPlayersByPointsOnly(players) ==
    IF players = <<>> THEN <<>>
    ELSE InsertByPoints(sortPlayersByPointsOnly(Front(players)),
                        players[Len(players)])

sortPlayersByTiebreakers(players) == SortPlayers(players)

----------------------------------------------------------------------------
(* recalculateStatsInternal *)

\* sortedStats.forEach((player, index) => player.current_rank = index + 1)
AssignRanks(sortedStats) ==
    AsSeq([i \in 1..Len(sortedStats) |->
               [current_rank |-> i] @@ sortedStats[i]])

\* the 21 values bound to one INSERT OR REPLACE INTO tournament_stats
StatsRow(t, stats) ==
    [tournament_id |-> t, player_id |-> stats.player_id,
     total_points |-> stats.total_points, games_played |-> stats.games_played,
     first_places |-> stats.first_places, second_places |-> stats.second_places,
     third_places |-> stats.third_places, fourth_places |-> stats.fourth_places,
     fifth_places |-> stats.fifth_places, sixth_places |-> stats.sixth_places,
     seventh_places |-> stats.seventh_places,
     eighth_places |-> stats.eighth_places,
     top_four_count |-> stats.top_four_count,
     top_four_plus_firsts |-> stats.top_four_plus_firsts,
     current_rank |-> stats.current_rank,
     end_of_day_placement |-> stats.end_of_day_placement,
     last_game_placement |-> stats.last_game_placement,
     second_last_game_placement |-> stats.second_last_game_placement,
     third_last_game_placement |-> stats.third_last_game_placement,
     fourth_last_game_placement |-> stats.fourth_last_game_placement,
     fifth_last_game_placement |-> stats.fifth_last_game_placement]

Statements(t, sortedStats) ==
    AsSeq([i \in 1..Len(sortedStats) |-> StatsRow(t, sortedStats[i])])

\* INSERT OR IGNORE: a row already there for the player stays
InsertOrIgnore(table, row) ==
    IF \E r \in table : r.tournament_id = row.tournament_id
                         /\ r.player_id = row.player_id
    THEN table ELSE table \cup {row}

\* an upsert that adds the new points to the points already stored
InsertAddingPoints(table, row) ==
    LET old == {r \in table : r.tournament_id = row.tournament_id
                              /\ r.player_id = row.player_id}
    IN  (table \ old) \cup
        {[row EXCEPT !.total_points =
              @ + (IF old = {} THEN 0 ELSE (CHOOSE r \in old : TRUE).total_points)]}

\* an upsert keyed by player_id alone: it evicts the player's rows of every
\* tournament
InsertOrReplaceByPlayer(table, row) ==
    {r \in table : r.player_id # row.player_id} \cup {row}

\* one INSERT OR REPLACE: UNIQUE(tournament_id, player_id) evicts the old row
InsertOrReplace(table, row) ==
    {r \in table : ~(r.tournament_id = row.tournament_id
                     /\ r.player_id = row.player_id)} \cup {row}

RECURSIVE RunStatements(_, _)
RunStatements(table, statements) ==
    IF statements = <<>> THEN table
    ELSE InsertOrReplace(RunStatements(table, Front(statements)),
                         statements[Len(statements)])

\* env.DB.batch(statements) that succeeds
Batch(table, statements) == RunStatements(table, statements)

\* statements run one by one: the first lands before the failure
BatchPartlyApplied(table, statements) ==
    RunStatements(table, SubSeq(statements, 1, 1))

\* env.DB.batch(statements) that fails: D1 runs a batch as one transaction
\* and rolls all of it back
BatchRolledBack(table, statements) == table

\* standings computed from the ledger as it was before the handler's write
SortedStatsBeforeWrite(t, ledger) ==
    AssignRanks(sortPlayersByTiebreakers(
                    calculateTournamentStats(t, game_results)))

\* the standings a recalculation computes from the ledger
SortedStats(t, ledger) ==
    AssignRanks(sortPlayersByTiebreakers(calculateTournamentStats(t, ledger)))

Failures == {"none", "load", "batch"}

\* recalculateStatsInternal(t) run against `ledger` when tournament_stats
\* holds `table`; `fail` is where the database fails, if it does.  Sets
\* tournament_stats', recalc', ret'.
RecalculateOver(table, t, ledger, fail) ==
    IF fail = "load"
    THEN /\ tournament_stats' = table
         /\ recalc' = "threw"
         /\ ret' = <<>>
    ELSE LET sortedStats == SortedStats(t, ledger)
             statements  == Statements(t, sortedStats)
         IN  IF Len(statements) > 0 /\ fail = "batch"
             THEN /\ tournament_stats' = BatchRolledBack(table, statements)
                  /\ recalc' = "threw"
                  /\ ret' = <<>>
             ELSE /\ tournament_stats' =
                         IF Len(statements) > 0
                         THEN Batch(table, statements)
                         ELSE table
                  /\ recalc' = "ok"
                  /\ ret' = sortedStats

\* recalculateStatsInternal(t) called by a handler
recalculateStatsInternal(t, ledger, fail) ==
    RecalculateOver(tournament_stats, t, ledger, fail)

\* completed recalculations in a row over an unchanged ledger
CountRuns ==
    recalcRuns' =
        IF recalc' # "ok" THEN 0
        ELSE IF game_results' # game_results THEN 1
        ELSE IF recalcRuns < MaxRuns THEN recalcRuns + 1
        ELSE recalcRuns

----------------------------------------------------------------------------
(* Requests *)

\* a JSON value of a request body: the number n, or the string of its digits
Num(n) == <<"number", n>>
Str(n) == <<"string", n>>

\* what <, > and - make of a JSON value, and what a column of INTEGER
\* affinity stores for it
ToNumber(v) == v[2]

\* !v
Falsy(v) == v = Num(0)

\* placement of player i in a submitted game
Perm1 == <<1, 2, 3, 4, 5, 6, 7, 8>>
Perm2 == <<5, 2, 4, 3, 6, 1, 8, 7>>
Perm3 == <<5, 1, 4, 2, 3, 6, 7, 8>>

Results(perm) ==
    [i \in 1..Len(perm) |-> [player_id |-> i, placement |-> Num(perm[i])]]

ValidResults == {Results(Perm1), Results(Perm2), Results(Perm3)}

InvalidResults ==
    { SubSeq(Results(Perm1), 1, LobbySize - 1),                 \* 7 results
      [Results(Perm1) EXCEPT ![LobbySize].placement = Num(1)],  \* 1 twice
      [Results(Perm1) EXCEPT ![LobbySize].placement = Num(MaxPlacement + 1)],
      [Results(Perm1) EXCEPT ![LobbySize].placement = Num(0)],
      [Results(Perm1) EXCEPT ![LobbySize].player_id = 1],       \* 1 twice
      [Results(Perm1) EXCEPT ![LobbySize].player_id = Stranger] }

Request(t, day, game, results) ==
    [tournament_id |-> t, day_number |-> day, game_number |-> game,
     results |-> results]

\* the submissions sent: three games, a request without day_number and six
\* that fail validation
SubmitRequests ==
    UNION {
      { Request(t, 1, 1, Results(Perm1)), Request(t, 1, 2, Results(Perm2)),
        Request(t, 2, 1, Results(Perm3)), Request(t, 0, 1, Results(Perm1)) }
      \cup {Request(t, 2, 2, results) : results \in InvalidResults}
      : t \in Tournaments }

\* the body of an update request: {} or {placement: n}
UpdateBodies ==
    {<<>>} \cup {[placement |-> n] : n \in 0..(MaxPlacement + 1)}

\* the result ids update and delete requests name: players 1 and 2 of the
\* game submitted first, player 4 of the game submitted second, and an id
\* that no row has
ResultIds == {1, 2, 12, 25}

tournament_participants == (Tournaments \cup {OtherTournament}) \X Players

----------------------------------------------------------------------------
(* submitGameResults *)

\* the validation loop over data.results: <<placements seen, players seen,
\* number of validation errors>>
RECURSIVE ValidateResults(_, _, _)
ValidateResults(t, results, acc) ==
    IF results = <<>> THEN acc
    ELSE LET result == Head(results)
             rest   == Tail(results)
             error  == <<acc[1], acc[2], acc[3] + 1>>
         IN  IF result.player_id = 0 \/ Falsy(result.placement)
             THEN ValidateResults(t, rest, error)
             ELSE IF \/ Less(ToNumber(result.placement), 1)
                     \/ Less(MaxPlacement, ToNumber(result.placement))
             THEN ValidateResults(t, rest, error)
             ELSE IF result.placement \in acc[1]
             THEN ValidateResults(t, rest, error)
             ELSE IF result.player_id \in acc[2]
             THEN ValidateResults(t, rest,
                      <<acc[1] \cup {result.placement}, acc[2], acc[3] + 1>>)
             ELSE ValidateResults(t, rest,
                      <<acc[1] \cup {result.placement},
                        acc[2] \cup {result.player_id},
                        IF <<t, result.player_id>> \in tournament_participants
                        THEN acc[3] ELSE acc[3] + 1>>)

validationErrors(t, results) == ValidateResults(t, results, <<{}, {}, 0>>)[3]

\* a count that looks at no row
existingResultsNotCounted(ledger, t, day, game) == 0

\* SELECT COUNT(*) FROM game_results WHERE tournament_id, day_number, game_number
existingResults(ledger, t, day, game) ==
    Cardinality({r \in ledger : /\ r.tournament_id = t
                                /\ r.day_number = day
                                /\ r.game_number = game})

calculatePoints(placement) == Minus(PointsBase, placement)

\* the rows the insert batch adds: ids in array order, created_at DEFAULT
\* CURRENT_TIMESTAMP
insertStatements(data, firstId, ts) ==
    { [id |-> firstId + i - 1,
       tournament_id |-> data.tournament_id,
       player_id |-> data.results[i].player_id,
       day_number |-> data.day_number,
       game_number |-> data.game_number,
       placement |-> ToNumber(data.results[i].placement),
       points |-> calculatePoints(ToNumber(data.results[i].placement)),
       created_at |-> ts] : i \in 1..Len(data.results) }

\* a handler that returns before it touches the database
Reject(status) ==
    /\ response' = status
    /\ UNCHANGED <<dbvars, recalc, ret, recalcRuns, writes>>

\* the status of the early return submitGameResults takes, 0 when it takes none
submitRejection(data) ==
    LET t == data.tournament_id
    IN  IF data.tournament_id = 0 \/ data.day_number = 0 \/ data.game_number = 0
        THEN 400
        ELSE IF ~(t \in DOMAIN tournaments
                  /\ tournaments[t] \in {"active", "upcoming"})
        THEN 404
        ELSE IF Len(data.results) # LobbySize
        THEN 400
        ELSE IF validationErrors(t, data.results) > 0
        THEN 400
        ELSE IF existingResults(game_results, t, data.day_number,
                                data.game_number) > 0
        THEN 400
        ELSE 0

\* UNIQUE(tournament_id, player_id, day_number, game_number): the insert batch
\* fails when a row to insert shares the four columns with another row
UniqueViolated(ledger, rows) ==
    \E r \in rows : \E x \in ledger \cup rows :
        /\ x.id # r.id
        /\ x.tournament_id = r.tournament_id
        /\ x.player_id = r.player_id
        /\ x.day_number = r.day_number
        /\ x.game_number = r.game_number

submitGameResults(data) ==
    LET t == data.tournament_id
    IN  IF submitRejection(data) # 0
        THEN Reject(submitRejection(data))
        ELSE IF UniqueViolated(game_results,
                               insertStatements(data, nextId, now))
        THEN Reject(500)
        ELSE \E dt \in {0, 1}, fail \in Failures :
             /\ writes < MaxWrites
             /\ writes' = writes + 1
             /\ now + dt <= MaxClock
             /\ now' = now + dt
             /\ game_results' =
                    game_results \cup insertStatements(data, nextId, now')
             /\ nextId' = nextId + Len(data.results)
             /\ recalculateStatsInternal(t, game_results', fail)
             /\ response' = IF recalc' = "ok" THEN 201 ELSE 500
             /\ CountRuns
             /\ UNCHANGED tournaments

----------------------------------------------------------------------------
(* updateGameResult *)

\* UPDATE game_results SET placement = ? WHERE id = ?
UpdateStatementKeepsPoints(row, newPlacement, newPoints) ==
    [row EXCEPT !.placement = newPlacement]

\* an UPDATE that sets created_at as well
UpdateStatementTouchesCreatedAt(row, newPlacement, newPoints) ==
    [row EXCEPT !.placement = newPlacement, !.points = newPoints,
                !.created_at = @ + 1]

\* UPDATE game_results SET placement = ?, points = ? WHERE id = ?
UpdateStatement(row, newPlacement, newPoints) ==
    [row EXCEPT !.placement = newPlacement, !.points = newPoints]

updateGameResult(resultId, data) ==
    LET found == {r \in game_results : r.id = resultId}
    IN  IF found = {} THEN Reject(404)
        ELSE LET existingResult == CHOOSE r \in found : TRUE
                 t == existingResult.tournament_id
                 conflictingResult ==
                     {r \in game_results :
                         /\ r.tournament_id = t
                         /\ r.day_number = existingResult.day_number
                         /\ r.game_number = existingResult.game_number
                         /\ "placement" \in DOMAIN data
                         /\ r.placement = data.placement
                         /\ r.id # resultId}
                 newPlacement ==
                     IF "placement" \in DOMAIN data /\ data.placement # 0
                     THEN data.placement ELSE existingResult.placement
                 newPoints == Minus(PointsBase, newPlacement)
             IN  IF tournaments[t] = "completed" THEN Reject(400)
                 ELSE IF /\ "placement" \in DOMAIN data
                         /\ \/ Less(data.placement, 1)
                            \/ Less(MaxPlacement, data.placement)
                 THEN Reject(400)
                 ELSE IF conflictingResult # {} THEN Reject(400)
                 ELSE \E fail \in Failures :
                      /\ writes < MaxWrites
                      /\ writes' = writes + 1
                      /\ game_results' =
                             (game_results \ {existingResult}) \cup
                             {UpdateStatement(existingResult, newPlacement,
                                              newPoints)}
                      /\ recalculateStatsInternal(t, game_results', fail)
                      /\ response' = IF recalc' = "ok" THEN 200 ELSE 500
                      /\ CountRuns
                      /\ UNCHANGED <<tournaments, nextId, now>>

----------------------------------------------------------------------------
(* deleteGameResult *)

\* the status of the early return deleteGameResult takes, 0 when it takes none
deleteRejection(resultId) ==
    LET found == {r \in game_results : r.id = resultId}
    IN  IF found = {} THEN 404
        ELSE IF tournaments[(CHOOSE r \in found : TRUE).tournament_id]
                    = "completed"
        THEN 400
        ELSE 0

deleteGameResult(resultId) ==
    IF deleteRejection(resultId) # 0
    THEN Reject(deleteRejection(resultId))
    ELSE LET existingResult == CHOOSE r \in game_results : r.id = resultId
             t == existingResult.tournament_id
         IN  \E fail \in Failures :
                 /\ writes < MaxWrites
                 /\ writes' = writes + 1
                 /\ game_results' = game_results \ {existingResult}
                 /\ recalculateStatsInternal(t, game_results', fail)
                 /\ response' = IF recalc' = "ok" THEN 200 ELSE 500
                 /\ CountRuns
                 /\ UNCHANGED <<tournaments, nextId, now>>

----------------------------------------------------------------------------
(* recalculateStatsInternal called on its own *)

Recalculate(t, fail) ==
    /\ UNCHANGED <<game_results, tournaments, nextId, now, writes>>
    /\ recalculateStatsInternal(t, game_results, fail)
    /\ response' = response
    /\ CountRuns

----------------------------------------------------------------------------
(* updateStatsForGameResult *)

\* a column left NULL
Null == 0

\* INSERT INTO tournament_stats (tournament_id, player_id): the counters take
\* their DEFAULT 0, the rank and the placements of recent games stay NULL
DefaultStatsRow(t, p) ==
    [tournament_id |-> t, player_id |-> p,
     total_points |-> 0, games_played |-> 0,
     first_places |-> 0, second_places |-> 0, third_places |-> 0,
     fourth_places |-> 0, fifth_places |-> 0, sixth_places |-> 0,
     seventh_places |-> 0, eighth_places |-> 0,
     top_four_count |-> 0, top_four_plus_firsts |-> 0,
     current_rank |-> Null, end_of_day_placement |-> Null,
     last_game_placement |-> Null, second_last_game_placement |-> Null,
     third_last_game_placement |-> Null, fourth_last_game_placement |-> Null,
     fifth_last_game_placement |-> Null]

\* fields[placement]: a column name, or "" for undefined
getPlacementField(placement) ==
    IF placement \in 1..MaxPlacement THEN placementChecks[placement] ELSE ""

\* the row the UPDATE leaves for playerStats
Increment(playerStats, gameResult) ==
    LET u1 == [playerStats EXCEPT
                   !.total_points = Plus(@, gameResult.points),
                   !.games_played = @ + 1]
        placementField == getPlacementField(gameResult.placement)
        u2 == IF placementField # ""
              THEN [u1 EXCEPT ![placementField] = @ + 1]
              ELSE u1
    IN  IF ~Less(4, gameResult.placement)
        THEN [u2 EXCEPT !.top_four_count = @ + 1]
        ELSE u2

\* tournament_stats once the player's row was created, if missing, and
\* incremented
IncrementedStats(t, gameResult) ==
    LET found == {r \in tournament_stats :
                      r.tournament_id = t /\ r.player_id = gameResult.player_id}
        playerStats == IF found = {}
                       THEN DefaultStatsRow(t, gameResult.player_id)
                       ELSE CHOOSE r \in found : TRUE
    IN  (tournament_stats \ found) \cup {Increment(playerStats, gameResult)}

\* the increment commits on its own; the recalculation that follows may throw
updateStatsForGameResult(t, gameResult, fail) ==
    /\ writes < MaxWrites
    /\ writes' = writes + 1
    /\ UNCHANGED <<game_results, tournaments, nextId, now>>
    /\ RecalculateOver(IncrementedStats(t, gameResult), t, game_results, fail)
    /\ response' = response
    /\ CountRuns

\* no handler was called yet
NoRequest == [kind |-> "none", data |-> Request(0, 0, 0, <<>>), resultId |-> 0]

\* a handler that runs no request
NoLocals == [tournament_id |-> 0, status |-> 0, gameResults |-> {},
             resultId |-> 0, newPlacement |-> 0]

----------------------------------------------------------------------------
(* The tournament monitor: handleStartMonitoring, handleRefreshTournament *)
(* and updateTournamentData                                              *)

\* hours in one unit of wallClock
HoursPerTick == 12

\* hoursSinceLastMatch > 12
EliminationHours == 12

\* (1000 * 60 * 60 * 24) milliseconds, in hours
HoursPerDay == 24

\* totalDays: 3
TotalDays == 3

\* lastSeen: null
NoDate == -1

\* env.TOURNAMENT_DATA.get returns null
NoMonitor ==
    [status |-> "none", startDate |-> 0, players |-> <<>>, totalPlayers |-> 0,
     activePlayers |-> 0, currentDay |-> 0, totalDays |-> 0]

\* the monitoring object handleStartMonitoring creates for n verified players
NewMonitor(n, startDate) ==
    [status |-> "live", startDate |-> startDate,
     players |-> [p \in 1..n |-> [eliminated |-> FALSE, lastSeen |-> NoDate]],
     totalPlayers |-> n, activePlayers |-> n,
     currentDay |-> 1, totalDays |-> TotalDays]

\* the times at which players finish matches
MatchTicks == {0, 3}

\* what the Riot API gives for each player at time nowT: the time of the
\* newest match since startDate, NoDate if it lists none or the calls fail
Sightings(tournament, nowT) ==
    [DOMAIN tournament.players ->
        {NoDate} \cup {m \in MatchTicks : tournament.startDate <= m /\ m <= nowT}]

HoursBetween(from, to) == HoursPerTick * (to - from)

\* Math.max(1, Math.min(daysDiff, tournament.totalDays))
CurrentDay(tournament, nowT) ==
    LET daysDiff ==
            (HoursBetween(tournament.startDate, nowT) \div HoursPerDay) + 1
        capped == IF daysDiff < tournament.totalDays THEN daysDiff
                  ELSE tournament.totalDays
    IN  IF capped > 1 THEN capped ELSE 1

\* the elimination test of one player
Idle(lastSeen, nowT, currentDay) ==
    /\ lastSeen # NoDate
    /\ HoursBetween(lastSeen, nowT) > EliminationHours
    /\ currentDay > 1

\* the status branch at the end of updateTournamentData
MonitorStatus(activePlayers, totalPlayers, currentDay, totalDays) ==
    IF activePlayers <= 1 \/ currentDay > totalDays THEN "completed"
    ELSE IF 2 * activePlayers < totalPlayers THEN "finals"
    ELSE "live"

\* updateTournamentData without the skip of eliminated players: the
\* elimination test is made anew for every player
updateTournamentDataRechecksAll(tournament, nowT, seen) ==
    LET currentDay == CurrentDay(tournament, nowT)
        players ==
            [p \in DOMAIN tournament.players |->
                [eliminated |-> Idle(seen[p], nowT, currentDay),
                 lastSeen   |-> seen[p]]]
        activePlayers ==
            Cardinality({p \in DOMAIN players : ~players[p].eliminated})
    IN  [tournament EXCEPT
            !.currentDay = currentDay,
            !.players = players,
            !.activePlayers = activePlayers,
            !.status = MonitorStatus(activePlayers, tournament.totalPlayers,
                                     currentDay, tournament.totalDays)]

\* updateTournamentData(tournament, env) at time nowT when the API shows
\* `seen`; the object it has mutated
updateTournamentData(tournament, nowT, seen) ==
    LET currentDay == CurrentDay(tournament, nowT)
        players ==
            [p \in DOMAIN tournament.players |->
                IF tournament.players[p].eliminated
                THEN tournament.players[p]
                ELSE [eliminated |->
                          IF Idle(seen[p], nowT, currentDay) THEN TRUE
                          ELSE tournament.players[p].eliminated,
                      lastSeen |-> seen[p]]]
        activePlayers ==
            Cardinality({p \in DOMAIN players : ~players[p].eliminated})
    IN  [tournament EXCEPT
            !.currentDay = currentDay,
            !.players = players,
            !.activePlayers = activePlayers,
            !.status = MonitorStatus(activePlayers, tournament.totalPlayers,
                                     currentDay, tournament.totalDays)]

\* the player lists of start requests: none, one player, a full field
MonSizes == {0, 1, MaxMonPlayers}

\* the tournament ids of refresh requests: missing, monitored, unknown
MonIds == {0, 1, 2}

\* handleStartMonitoring for tournament 1; `keyFails` when the API key
\* cannot be read
handleStartMonitoring(n, startDate, keyFails) ==
    IF n = 0
    THEN response' = 400 /\ UNCHANGED monitorStore
    ELSE IF keyFails
    THEN response' = 500 /\ UNCHANGED monitorStore
    ELSE \E seen \in Sightings(NewMonitor(n, startDate), wallClock) :
             /\ monitorStore' =
                    updateTournamentData(NewMonitor(n, startDate),
                                         wallClock, seen)
             /\ response' = 200

handleRefreshTournament(tournamentId, keyFails) ==
    IF tournamentId = 0
    THEN response' = 400 /\ UNCHANGED monitorStore
    ELSE IF tournamentId # 1 \/ monitorStore = NoMonitor
    THEN response' = 404 /\ UNCHANGED monitorStore
    ELSE IF keyFails
    THEN response' = 500 /\ UNCHANGED monitorStore
    ELSE \E seen \in Sightings(monitorStore, wallClock) :
             /\ monitorStore' =
                    updateTournamentData(monitorStore, wallClock, seen)
             /\ response' = 200

----------------------------------------------------------------------------
(* The handlers, each run to completion *)

InitDb ==
    /\ game_results = {}
    /\ tournament_stats = {}
    /\ tournaments = [t \in Tournaments |-> "active"]
    /\ nextId = 1
    /\ now = 0
    /\ response = 0
    /\ recalc = "none"
    /\ ret = <<>>
    /\ recalcRuns = 0
    /\ writes = 0
    /\ pc = [h \in Handlers |-> "idle"]
    /\ local = [h \in Handlers |-> NoLocals]
    /\ request = NoRequest
    /\ monitorStore = NoMonitor
    /\ wallClock = 0

Init ==
    /\ InitDb
    /\ pair = <<>>
    /\ sorted = <<>>
    /\ triple = <<>>
    /\ cmp = <<>>

Submit ==
    /\ \E data \in SubmitRequests : submitGameResults(data)
    /\ UNCHANGED <<concvars, cmpvars, monvars, logvars>>

Update ==
    /\ \E resultId \in ResultIds, data \in UpdateBodies :
           updateGameResult(resultId, data)
    /\ UNCHANGED <<concvars, cmpvars, monvars, logvars>>

Delete ==
    /\ \E resultId \in ResultIds : deleteGameResult(resultId)
    /\ UNCHANGED <<concvars, cmpvars, monvars, logvars>>

Refresh ==
    /\ \E t \in Tournaments, fail \in Failures : Recalculate(t, fail)
    /\ UNCHANGED <<concvars, cmpvars, monvars, logvars>>

Next == Submit \/ Update \/ Delete \/ Refresh

Spec == Init /\ [][Next]_vars

----------------------------------------------------------------------------
(* submitGameResults and deleteGameResult with the request of each call    *)
(* kept                                                                    *)

\* players 1 and 2 both first, once as the number 1 and once as the string
\* "1"; nobody second
MixedResults == [Results(Perm1) EXCEPT ![2].placement = Str(1)]

JsonRequests ==
    SubmitRequests \cup {Request(t, 2, 2, MixedResults) : t \in Tournaments}

LogSubmit ==
    \E data \in JsonRequests :
        /\ writes < MaxLogWrites \/ submitRejection(data) # 0
        /\ submitGameResults(data)
        /\ request' = [kind |-> "submit", data |-> data, resultId |-> 0]
        /\ UNCHANGED <<concvars, cmpvars, monvars>>

LogDelete ==
    \E resultId \in ResultIds :
        /\ writes < MaxLogWrites \/ deleteRejection(resultId) # 0
        /\ deleteGameResult(resultId)
        /\ request' = [kind |-> "delete", data |-> NoRequest.data,
                       resultId |-> resultId]
        /\ UNCHANGED <<concvars, cmpvars, monvars>>

NextLog == LogSubmit \/ LogDelete

SpecLog == Init /\ [][NextLog]_vars

----------------------------------------------------------------------------
(* submitGameResults and deleteGameResult on requests with placements that *)
(* are not integers                                                        *)

\* player 1 placed 1.5 and player 2 placed 5.25; nobody first or sixth
FracPerm == <<Quarters(6), Quarters(21), 3, 4, 5, 2, 7, 8>>

NumRequests ==
    UNION { { Request(t, 1, 1, Results(FracPerm)),
              Request(t, 1, 2, Results(FracPerm)),
              Request(t, 2, 1, Results(Perm1)) } : t \in Tournaments }

\* the facts of players 1 and 2 in the game submitted first and the fact of
\* player 1 in the game submitted second
NumResultIds == {1, 2, 9}

NumSubmit ==
    \E data \in NumRequests :
        /\ submitGameResults(data)
        /\ request' = [kind |-> "submit", data |-> data, resultId |-> 0]
        /\ UNCHANGED <<concvars, cmpvars, monvars>>

NumDelete ==
    \E resultId \in NumResultIds :
        /\ deleteGameResult(resultId)
        /\ request' = [kind |-> "delete", data |-> NoRequest.data,
                       resultId |-> resultId]
        /\ UNCHANGED <<concvars, cmpvars, monvars>>

NextNum == NumSubmit \/ NumDelete

SpecNum == Init /\ [][NextNum]_vars

----------------------------------------------------------------------------
(* updateStatsForGameResult called for a result of the ledger, between *)
(* submissions and deletions                                          *)

IncRequests ==
    UNION { { Request(t, 1, 1, Results(Perm1)),
              Request(t, 1, 2, Results(Perm2)) } : t \in Tournaments }

\* the facts of players 1 and 2 in the game submitted first
IncResultIds == {1, 2}

IncSubmit ==
    \E data \in IncRequests :
        /\ submitGameResults(data)
        /\ request' = [kind |-> "submit", data |-> data, resultId |-> 0]
        /\ UNCHANGED <<concvars, cmpvars, monvars>>

IncDelete ==
    \E resultId \in IncResultIds :
        /\ deleteGameResult(resultId)
        /\ request' = [kind |-> "delete", data |-> NoRequest.data,
                       resultId |-> resultId]
        /\ UNCHANGED <<concvars, cmpvars, monvars>>

\* the result handed over is one the ledger holds
IncUpdateStats ==
    \E gameResult \in game_results, fail \in Failures :
        /\ updateStatsForGameResult(gameResult.tournament_id, gameResult, fail)
        /\ request' = [kind |-> "updateStats", data |-> NoRequest.data,
                       resultId |-> gameResult.id]
        /\ UNCHANGED <<concvars, cmpvars, monvars>>

NextInc == IncSubmit \/ IncDelete \/ IncUpdateStats

SpecInc == Init /\ [][NextInc]_vars

----------------------------------------------------------------------------
(* Two handlers in flight.  A handler gives way at each await: after its   *)
(* write to game_results, and between the SELECT of the recalculation and  *)
(* its batch.                                                              *)

\* submitGameResults up to and including its insert batch
SubmitInsert(h, data, dt) ==
    /\ pc[h] = "idle"
    /\ submitRejection(data) = 0
    /\ writes < MaxConcWrites
    /\ writes' = writes + 1
    /\ now + dt <= MaxClock
    /\ now' = now + dt
    /\ game_results' = game_results \cup insertStatements(data, nextId, now')
    /\ nextId' = nextId + Len(data.results)
    /\ pc' = [pc EXCEPT ![h] = "load"]
    /\ local' = [local EXCEPT ![h] = [NoLocals EXCEPT
                                         !.tournament_id = data.tournament_id,
                                         !.status = 201]]
    /\ UNCHANGED <<tournament_stats, tournaments, outvars, cmpvars, monvars,
                   logvars>>

\* deleteGameResult up to and including its DELETE
DeleteRow(h, resultId) ==
    /\ pc[h] = "idle"
    /\ deleteRejection(resultId) = 0
    /\ writes < MaxConcWrites
    /\ writes' = writes + 1
    /\ LET existingResult == CHOOSE r \in game_results : r.id = resultId
       IN  /\ game_results' = game_results \ {existingResult}
           /\ local' = [local EXCEPT ![h] =
                           [NoLocals EXCEPT
                               !.tournament_id = existingResult.tournament_id,
                               !.status = 200]]
    /\ pc' = [pc EXCEPT ![h] = "load"]
    /\ UNCHANGED <<tournament_stats, tournaments, nextId, now, outvars, cmpvars, monvars,
                   logvars>>

\* recalculateStatsInternal: the SELECT of calculateTournamentStats
LoadResults(h) ==
    /\ pc[h] = "load"
    /\ local' = [local EXCEPT ![h].gameResults =
                     {r \in game_results :
                          r.tournament_id = local[h].tournament_id}]
    /\ pc' = [pc EXCEPT ![h] = "persist"]
    /\ UNCHANGED <<dbvars, outvars, writes, cmpvars, monvars, logvars>>

\* recalculateStatsInternal from the rows loaded on: aggregation, sort, batch;
\* then the handler responds
PersistStats(h) ==
    /\ pc[h] = "persist"
    /\ recalculateStatsInternal(local[h].tournament_id, local[h].gameResults,
                                "none")
    /\ response' = local[h].status
    /\ pc' = [pc EXCEPT ![h] = "idle"]
    /\ local' = [local EXCEPT ![h] = NoLocals]
    /\ UNCHANGED <<game_results, tournaments, nextId, now, recalcRuns, writes,
                   cmpvars, monvars, logvars>>

ConcSubmit  == \E h \in Handlers, data \in SubmitRequests, dt \in {0, 1} :
                   SubmitInsert(h, data, dt)
ConcDelete  == \E h \in Handlers, resultId \in ResultIds : DeleteRow(h, resultId)
ConcLoad    == \E h \in Handlers : LoadResults(h)
ConcPersist == \E h \in Handlers : PersistStats(h)

NextConc == ConcSubmit \/ ConcDelete \/ ConcLoad \/ ConcPersist

SpecConc == Init /\ [][NextConc]_vars

----------------------------------------------------------------------------
(* Two handlers in flight on one game, updateGameResult among them.  It     *)
(* gives way between its conflict query and its UPDATE.                     *)

\* updateGameResult up to and including its conflict query
UpdateCheck(h, resultId, data) ==
    /\ pc[h] = "idle"
    /\ \E existingResult \in game_results :
           /\ existingResult.id = resultId
           /\ tournaments[existingResult.tournament_id] # "completed"
           /\ ~Less(data.placement, 1) /\ ~Less(MaxPlacement, data.placement)
           /\ ~ \E r \in game_results :
                     /\ r.tournament_id = existingResult.tournament_id
                     /\ r.day_number = existingResult.day_number
                     /\ r.game_number = existingResult.game_number
                     /\ r.placement = data.placement
                     /\ r.id # resultId
           /\ local' = [local EXCEPT ![h] =
                           [NoLocals EXCEPT
                               !.tournament_id = existingResult.tournament_id,
                               !.status = 200,
                               !.resultId = resultId,
                               !.newPlacement = data.placement]]
    /\ pc' = [pc EXCEPT ![h] = "update"]
    /\ UNCHANGED <<dbvars, outvars, writes, cmpvars, monvars, logvars>>

\* the UPDATE of updateGameResult: it changes the row of that id, if there is
\* one still
UpdateRow(h) ==
    /\ pc[h] = "update"
    /\ writes < MaxRaceWrites
    /\ writes' = writes + 1
    /\ game_results' =
           { IF r.id = local[h].resultId
             THEN UpdateStatement(r, local[h].newPlacement,
                                  Minus(PointsBase, local[h].newPlacement))
             ELSE r : r \in game_results }
    /\ pc' = [pc EXCEPT ![h] = "load"]
    /\ UNCHANGED <<tournament_stats, tournaments, nextId, now, outvars, local,
                   cmpvars, monvars, logvars>>

\* one game, the deletion of its winner's fact, and corrections of the facts
\* of players 2 and 3
RaceRequests == {Request(t, 1, 1, Results(Perm1)) : t \in Tournaments}
RaceDeletes  == {1}
RaceUpdates  == {2, 3}
RaceBodies   == {[placement |-> 1], [placement |-> 2]}

RaceSubmit == \E h \in Handlers, data \in RaceRequests :
                  /\ writes < MaxRaceWrites
                  /\ SubmitInsert(h, data, 0)
RaceDelete == \E h \in Handlers, resultId \in RaceDeletes :
                  /\ writes < MaxRaceWrites
                  /\ DeleteRow(h, resultId)
RaceCheck  == \E h \in Handlers, resultId \in RaceUpdates,
                 data \in RaceBodies : UpdateCheck(h, resultId, data)
RaceUpdate == \E h \in Handlers : UpdateRow(h)

NextRace == RaceSubmit \/ RaceDelete \/ RaceCheck \/ RaceUpdate
               \/ ConcLoad \/ ConcPersist

SpecRace == Init /\ [][NextRace]_vars

----------------------------------------------------------------------------
(* Handlers in flight while a tournament is closed *)

\* the status column of a tournament is set to 'completed'
CompleteTournament(t) ==
    /\ tournaments[t] # "completed"
    /\ tournaments' = [tournaments EXCEPT ![t] = "completed"]
    /\ UNCHANGED <<game_results, tournament_stats, nextId, now, outvars,
                   writes, concvars, cmpvars, monvars, logvars>>

Complete == \E t \in Tournaments : CompleteTournament(t)

NextDone == RaceSubmit \/ RaceDelete \/ RaceCheck \/ RaceUpdate
               \/ ConcLoad \/ ConcPersist \/ Complete

SpecDone == Init /\ [][NextDone]_vars

----------------------------------------------------------------------------
(* Two handlers in flight over two tournaments *)

BothTournaments == Tournaments \cup {OtherTournament}

FrameRequests ==
    UNION { { Request(t, 1, 1, Results(Perm1)),
              Request(t, 1, 2, Results(Perm2)) } : t \in BothTournaments }

InitFrame ==
    /\ game_results = {}
    /\ tournament_stats = {}
    /\ tournaments = [t \in BothTournaments |-> "active"]
    /\ nextId = 1
    /\ now = 0
    /\ response = 0
    /\ recalc = "none"
    /\ ret = <<>>
    /\ recalcRuns = 0
    /\ writes = 0
    /\ pc = [h \in Handlers |-> "idle"]
    /\ local = [h \in Handlers |-> NoLocals]
    /\ request = NoRequest
    /\ pair = <<>>
    /\ sorted = <<>>
    /\ triple = <<>>
    /\ cmp = <<>>
    /\ monitorStore = NoMonitor
    /\ wallClock = 0

FrameSubmit == \E h \in Handlers, data \in FrameRequests, dt \in {0, 1} :
                   SubmitInsert(h, data, dt)

NextFrame == FrameSubmit \/ ConcDelete \/ ConcLoad \/ ConcPersist

SpecFrame == InitFrame /\ [][NextFrame]_vars

----------------------------------------------------------------------------
(* sortPlayersByTiebreakers on two players *)

TwoPlacements == {3, 6}

\* the placements of one player, oldest game first
Histories ==
    UNION {[1..n -> 1..MaxPlacement] : n \in 0..MaxGames}
    \cup UNION {[1..n -> TwoPlacements] : n \in 0..MaxLongGames}

\* the game_results rows of a history: one game a second
HistoryResults(p, history) ==
    [i \in 1..Len(history) |->
        [player_id |-> p, day_number |-> 1, game_number |-> i,
         placement |-> history[i], points |-> calculatePoints(history[i]),
         created_at |-> i]]

\* the aggregate calculateTournamentStats builds for player p from a history
StandingOf ==
    [p \in {1, 2}, history \in Histories |->
        DeriveStats(AccumulateResults(p, HistoryResults(p, history)))]

InitCmp ==
    /\ InitDb
    /\ \E h1 \in Histories, h2 \in Histories :
           pair = <<StandingOf[1, h1], StandingOf[2, h2]>>
    /\ sorted = <<>>
    /\ triple = <<>>
    /\ cmp = <<>>

SortPair ==
    /\ sorted = <<>>
    /\ sorted' = sortPlayersByTiebreakers(pair)
    /\ UNCHANGED <<dbvars, outvars, writes, concvars, logvars, monvars, pair,
                   triple, cmp>>

NextCmp == SortPair

SpecCmp == InitCmp /\ [][NextCmp]_vars

----------------------------------------------------------------------------
(* The comparator of sortPlayersByTiebreakers on three players *)

OrdPlacements == {1, 4, 5}

\* the placements of one player, oldest game first
OrdHistories == UNION {[1..n -> OrdPlacements] : n \in 0..MaxOrdGames}

InitOrd ==
    /\ InitDb
    /\ pair = <<>>
    /\ sorted = <<>>
    /\ \E h1 \in OrdHistories, h2 \in OrdHistories, h3 \in OrdHistories :
           triple =
             << DeriveStats(AccumulateResults(1, HistoryResults(1, h1))),
                DeriveStats(AccumulateResults(2, HistoryResults(2, h2))),
                DeriveStats(AccumulateResults(3, HistoryResults(3, h3))) >>
    /\ cmp = <<>>

\* the comparator called on every ordered pair of the three
ComparePairs ==
    /\ cmp = <<>>
    /\ cmp' = [i \in 1..3 |-> [j \in 1..3 |-> compare(triple[i], triple[j])]]
    /\ UNCHANGED <<dbvars, outvars, writes, concvars, logvars, monvars, pair, sorted,
                   triple>>

NextOrd == ComparePairs

SpecOrd == InitOrd /\ [][NextOrd]_vars

----------------------------------------------------------------------------
(* The monitor: a tournament started, refreshed as time passes *)

MonStart ==
    \E n \in MonSizes, startDate \in {0, wallClock}, keyFails \in BOOLEAN :
        /\ handleStartMonitoring(n, startDate, keyFails)
        /\ request' = [kind |-> "start", data |-> NoRequest.data,
                       resultId |-> 0]
        /\ UNCHANGED <<dbvars, recalc, ret, recalcRuns, writes, concvars,
                       cmpvars, wallClock>>

MonRefresh ==
    \E tournamentId \in MonIds, keyFails \in BOOLEAN :
        /\ handleRefreshTournament(tournamentId, keyFails)
        /\ request' = [kind |-> "refresh", data |-> NoRequest.data,
                       resultId |-> 0]
        /\ UNCHANGED <<dbvars, recalc, ret, recalcRuns, writes, concvars,
                       cmpvars, wallClock>>

\* half a day passes
MonTick ==
    /\ wallClock < MaxTicks
    /\ wallClock' = wallClock + 1
    /\ UNCHANGED <<dbvars, outvars, writes, concvars, cmpvars, logvars,
                   monitorStore>>

NextMon == MonStart \/ MonRefresh \/ MonTick

SpecMon == Init /\ [][NextMon]_vars

----------------------------------------------------------------------------
(* Properties of the ledger and the snapshot *)

FactsOf(t, p) ==
    {r \in game_results : r.tournament_id = t /\ r.player_id = p}

PlayersWithFacts(t) ==
    {r.player_id : r \in {x \in game_results : x.tournament_id = t}}

Snapshot(t) == {row \in tournament_stats : row.tournament_id = t}

RowOf(t, p) == CHOOSE row \in Snapshot(t) : row.player_id = p

RECURSIVE SumOfPoints(_)
SumOfPoints(facts) ==
    IF facts = {} THEN 0
    ELSE LET f == CHOOSE x \in facts : TRUE
         IN  Plus(Minus(9, f.placement), SumOfPoints(facts \ {f}))

\* C1: after recalculateStatsInternal completes, every player with at least
\* one fact has total_points equal to the sum of (9 - placement) over the
\* player's facts.
C1_TotalPoints ==
    recalc = "ok" =>
        \A t \in Tournaments : \A p \in PlayersWithFacts(t) :
            /\ \E row \in Snapshot(t) : row.player_id = p
            /\ RowOf(t, p).total_points = SumOfPoints(FactsOf(t, p))
            /\ \A i \in DOMAIN ret :
                   ret[i].player_id = p =>
                       ret[i].total_points = SumOfPoints(FactsOf(t, p))

\* a correction has moved the fact of player 2 from second to first place
\* (the winner's fact was deleted before) and the standings were recalculated
C1_Witness ==
    /\ recalc = "ok"
    /\ response = 200
    /\ \E r \in game_results :
           /\ r.id = 2 /\ r.placement = 1
           /\ RowOf(r.tournament_id, r.player_id).total_points = 8

\* the fifteen criteria in their precedence, each turned so that the smaller
\* value ranks first
Criteria(x) ==
    << -x.total_points, -x.top_four_plus_firsts,
       -x.first_places, -x.second_places, -x.third_places, -x.fourth_places,
       -x.fifth_places, -x.sixth_places, -x.seventh_places, -x.eighth_places,
       x.last_game_placement, x.second_last_game_placement,
       x.third_last_game_placement, x.fourth_last_game_placement,
       x.fifth_last_game_placement >>

Differing(a, b) == {k \in DOMAIN Criteria(a) : Criteria(a)[k] # Criteria(b)[k]}

\* C2: two players are ordered by the first of the fifteen criteria on which
\* they differ (points, top_four_plus_firsts, first..eighth places higher
\* first; last..fifth-last placement lower first); no later criterion
\* overrides it.
C2_FirstDifferenceDecides ==
    (sorted # <<>> /\ Differing(pair[1], pair[2]) # {}) =>
        LET a == pair[1]
            b == pair[2]
            k == Min(Differing(a, b))
        IN  sorted = IF Criteria(a)[k] < Criteria(b)[k]
                     THEN <<a, b>> ELSE <<b, a>>

\* the players differ on the count of first places, which favours the one
\* handed over second, and on the last placement, which favours the other:
\* the sort put the second one first
C2_Witness ==
    /\ sorted # <<>>
    /\ Min(Differing(pair[1], pair[2]) \cup {16}) = 3
    /\ pair[2].first_places > pair[1].first_places
    /\ pair[2].last_game_placement > pair[1].last_game_placement
    /\ sorted = <<pair[2], pair[1]>>

\* C3 as stated: with equal total_points, the player with more first places
\* ranks above the other whatever the other statistics are.
C3_Original ==
    recalc = "ok" =>
        \A i, j \in DOMAIN ret :
            (/\ ret[i].total_points = ret[j].total_points
             /\ ret[i].first_places > ret[j].first_places)
            => ret[i].current_rank < ret[j].current_rank

\* C3 amended: with equal total_points and equal top_four_plus_firsts, the
\* player with more first places ranks above the other whatever the
\* remaining statistics are.
C3_FirstPlacesBreakTie ==
    recalc = "ok" =>
        \A i, j \in DOMAIN ret :
            (/\ ret[i].total_points = ret[j].total_points
             /\ ret[i].top_four_plus_firsts = ret[j].top_four_plus_firsts
             /\ ret[i].first_places > ret[j].first_places)
            => ret[i].current_rank < ret[j].current_rank

\* two players tied on points and on top_four_plus_firsts; the one with the
\* first place has fewer top-four finishes and ranks above
C3_Witness ==
    /\ recalc = "ok"
    /\ \E i, j \in DOMAIN ret :
           /\ ret[i].total_points = ret[j].total_points
           /\ ret[i].top_four_plus_firsts = ret[j].top_four_plus_firsts
           /\ ret[i].first_places > ret[j].first_places
           /\ ret[i].top_four_count < ret[j].top_four_count
           /\ ret[i].current_rank < ret[j].current_rank

\* C4: after a completed recalculation the snapshot holds a standing for
\* exactly the players that have a fact in the ledger.
C4_SnapshotPlayers ==
    recalc = "ok" =>
        \A t \in Tournaments :
            {row.player_id : row \in Snapshot(t)} = PlayersWithFacts(t)

\* C5: no two standings of a snapshot share a current_rank and the ranks
\* are exactly 1..N for N standings.
C5_DenseRanks ==
    recalc = "ok" =>
        \A t \in Tournaments :
            /\ \A r1, r2 \in Snapshot(t) :
                   r1.current_rank = r2.current_rank => r1 = r2
            /\ {row.current_rank : row \in Snapshot(t)} =
                   1..Cardinality(Snapshot(t))

StandingFields ==
    {"total_points", "games_played", "top_four_count", "top_four_plus_firsts",
     "end_of_day_placement"}
    \cup {placementChecks[i] : i \in DOMAIN placementChecks}
    \cup {recentGameChecks[i] : i \in DOMAIN recentGameChecks}

\* the aggregate of player p among freshly computed aggregates
AggregateOf(stats, p) ==
    stats[CHOOSE i \in DOMAIN stats : stats[i].player_id = p]

\* C6: once every handler has finished, the persisted snapshot reflects every
\* committed fact: it holds the standing, rank included, that a recalculation
\* over the ledger computes for each player with a fact.
C6_SnapshotReflectsLedger ==
    (\A h \in Handlers : pc[h] = "idle") =>
        \A t \in Tournaments :
            LET fresh == SortedStats(t, game_results)
            IN  \A i \in DOMAIN fresh :
                    StatsRow(t, fresh[i]) \in tournament_stats

\* C7: after successful calls, the persisted standing of every player with a
\* fact equals, field by field, the aggregate computed from the ledger.
C7_SnapshotIsFresh ==
    recalc = "ok" =>
        \A t \in Tournaments :
            LET fresh == calculateTournamentStats(t, game_results)
            IN  \A p \in PlayersWithFacts(t) :
                    /\ \E row \in Snapshot(t) : row.player_id = p
                    /\ \E i \in DOMAIN fresh : fresh[i].player_id = p
                    /\ \A f \in StandingFields :
                           RowOf(t, p)[f] = AggregateOf(fresh, p)[f]

\* a player's standing was rewritten: two games recorded, one result of the
\* player deleted afterwards
C7_Witness ==
    /\ recalc = "ok"
    /\ response = 200
    /\ \E t \in Tournaments : \E p \in PlayersWithFacts(t) :
           /\ Cardinality(FactsOf(t, p)) = 1
           /\ RowOf(t, p).games_played = 1
           /\ \E q \in PlayersWithFacts(t) : RowOf(t, q).games_played = 2

\* C8: a step in which recalculateStatsInternal throws leaves the persisted
\* snapshot as it was.
C8_ThrowWritesNothing ==
    [][recalc' = "threw" => tournament_stats' = tournament_stats]_vars

\* a recalculation threw over a ledger whose standings differ from the
\* persisted ones
C8_Witness ==
    /\ recalc = "threw"
    /\ tournament_stats # {}
    /\ \E t \in Tournaments :
           Snapshot(t) # Batch({}, Statements(t, SortedStats(t, game_results)))

\* C9: in the returned sequence no later standing beats an earlier one:
\* compare(ret[i], ret[j]) <= 0 for all i < j.
C9_RankMonotone ==
    \A i, j \in DOMAIN ret : i < j => compare(ret[i], ret[j]) <= 0

\* the sort moved a player: the returned order is not the player_id order,
\* and two players tied on points were ordered by a later criterion
C9_Witness ==
    /\ Len(ret) = LobbySize
    /\ \E i, j \in DOMAIN ret :
           /\ i < j
           /\ ret[i].player_id > ret[j].player_id
           /\ ret[i].total_points = ret[j].total_points

GameFacts(ledger, t, day, game) ==
    {r \in ledger : /\ r.tournament_id = t
                    /\ r.day_number = day
                    /\ r.game_number = game}

RequestedGameFacts(ledger, data) ==
    GameFacts(ledger, data.tournament_id, data.day_number, data.game_number)

\* C11: a submitGameResults call for a game that already has a recorded fact
\* is rejected and leaves the ledger and the snapshot as they were.
C11_ResubmissionRejected ==
    [][(/\ request'.kind = "submit"
        /\ RequestedGameFacts(game_results, request'.data) # {})
         => (/\ response' = 400
             /\ game_results' = game_results
             /\ tournament_stats' = tournament_stats)]_vars

\* a well-formed submission was rejected for a game of which one result had
\* been deleted: seven facts were there, and they still are
C11_Witness ==
    /\ request.kind = "submit"
    /\ request.data.results = Results(Perm1)
    /\ response = 400
    /\ Cardinality(RequestedGameFacts(game_results, request.data))
           = LobbySize - 1

\* the games that have a fact
Games ==
    {<<r.tournament_id, r.day_number, r.game_number>> : r \in game_results}

\* C12: in every reachable ledger the placements recorded for one game are
\* a permutation of 1..N, N the number of facts recorded for that game.
C12_PlacementsPermutation ==
    \A g \in Games :
        LET facts == GameFacts(game_results, g[1], g[2], g[3])
        IN  /\ \A r1, r2 \in facts : r1.placement = r2.placement => r1 = r2
            /\ {r.placement : r \in facts} = 1..Cardinality(facts)

\* what C13 asks of a submission before any fact is written
WellFormed(data) ==
    LET results == data.results
    IN  /\ Len(results) = 8
        /\ \A i \in DOMAIN results : ToNumber(results[i].placement) \in 1..8
        /\ \A i, j \in DOMAIN results :
               i # j => /\ ToNumber(results[i].placement)
                            # ToNumber(results[j].placement)
                        /\ results[i].player_id # results[j].player_id
        /\ \A i \in DOMAIN results :
               <<data.tournament_id, results[i].player_id>>
                   \in tournament_participants
        /\ data.tournament_id \in DOMAIN tournaments
        /\ tournaments[data.tournament_id] \in {"active", "upcoming"}

\* C13: submitGameResults writes facts only for a submission of exactly 8
\* results with placements in 1..8, no placement and no player repeated,
\* every player a participant and the tournament active or upcoming; any
\* other submission leaves the ledger and the snapshot as they were.
C13_OnlyWellFormedWritten ==
    [][(request'.kind = "submit" /\ ~WellFormed(request'.data))
         => (/\ game_results' = game_results
             /\ tournament_stats' = tournament_stats)]_vars

\* C14: a recalculation of a tournament without facts surfaces an error; it
\* never completes with an empty list of standings.
C14_EmptyLedgerThrows ==
    recalc = "ok" => ret # <<>>

\* C15: a handler step that wrote to the ledger and answers with success
\* has completed a recalculation over the ledger as written: what it
\* returned and persisted are the standings of the new ledger.
C15_SuccessAfterRecalculation ==
    [][(writes' # writes /\ response' \in {200, 201}) =>
         /\ recalc' = "ok"
         /\ \A t \in Tournaments :
                /\ ret' = AssignRanks(sortPlayersByTiebreakers(
                              calculateTournamentStats(t, game_results')))
                /\ \A i \in DOMAIN ret' :
                       StatsRow(t, ret'[i]) \in tournament_stats']_vars

\* a delete answered 200 after two games were recorded: the standings
\* returned count one game for one player and two for the others
C15_Witness ==
    /\ response = 200
    /\ recalc = "ok"
    /\ writes = MaxWrites
    /\ Cardinality(game_results) = 2 * LobbySize - 1
    /\ \E i \in DOMAIN ret : ret[i].games_played = 1

\* the rows of a table that belong to tournament t
RowsOf(table, t) == {row \in table : row.tournament_id = t}

\* C16: the recalculation a handler runs for tournament T loads T's facts
\* alone, computes its standings from them alone, and changes no persisted
\* standing of another tournament, whatever the other handler does in between.
C16_OtherTournamentsUntouched ==
    [][\A h \in Handlers :
          /\ (pc[h] = "load" /\ pc'[h] = "persist") =>
                 local'[h].gameResults
                     = RowsOf(game_results, local[h].tournament_id)
          /\ (pc[h] = "persist" /\ pc'[h] = "idle") =>
                 /\ \A t \in BothTournaments \ {local[h].tournament_id} :
                        RowsOf(tournament_stats', t) = RowsOf(tournament_stats, t)
                 /\ \A i \in DOMAIN ret' :
                        ret'[i].games_played =
                            Cardinality({r \in RowsOf(local[h].gameResults,
                                                      local[h].tournament_id) :
                                             r.player_id = ret'[i].player_id})
      ]_vars

\* both tournaments have persisted standings, written by recalculations that
\* overlapped: the one that finished last leaves the other's rows in place
C16_Witness ==
    /\ \A h \in Handlers : pc[h] = "idle"
    /\ \A t \in BothTournaments :
           Cardinality(RowsOf(tournament_stats, t)) = LobbySize
    /\ Cardinality(game_results) = 2 * LobbySize

\* the five recent-placement fields, most recent first
RecentSlots ==
    << "last_game_placement", "second_last_game_placement",
       "third_last_game_placement", "fourth_last_game_placement",
       "fifth_last_game_placement" >>

\* C17: for a player with k facts, slot n of the five recent-placement fields
\* holds the placement of the n-th most recently recorded fact for
\* n <= min(k, 5) and the sentinel 9 otherwise; every real placement is
\* smaller than the sentinel, so in the comparison of recent placements a
\* missing slot never ranks before a real one.
C17_RecentSlots ==
    \A i \in DOMAIN pair :
        LET x == pair[i]
            k == x.games_played
        IN  /\ {x.game_history[j].game : j \in DOMAIN x.game_history} = 1..k
            /\ Len(x.game_history) = k
            /\ \A n \in DOMAIN RecentSlots :
                   x[RecentSlots[n]] =
                       IF n <= k
                       THEN (CHOOSE e \in {x.game_history[j] :
                                               j \in DOMAIN x.game_history} :
                                 e.created_at = k + 1 - n).placement
                       ELSE Sentinel
            /\ \A n \in DOMAIN RecentSlots :
                   n <= k => x[RecentSlots[n]] < Sentinel

\* one player has six facts, of which the oldest is left out of the five
\* slots, the other has one fact and four sentinel slots; the pair was sorted
C17_Witness ==
    /\ sorted # <<>>
    /\ pair[1].games_played = MaxLongGames
    /\ pair[1].game_history[MaxLongGames].placement = 6
    /\ pair[1].game_history[MaxLongGames].created_at = 1
    /\ pair[1].fifth_last_game_placement = 3
    /\ pair[1].last_game_placement = 6
    /\ pair[2].games_played = 1
    /\ pair[2].last_game_placement = 3
    /\ pair[2].second_last_game_placement = Sentinel

\* C18: two players that are equal on every tiebreak criterion stand in the
\* sorted standings in the order of the aggregator's output, ascending
\* player_id, and their persisted ranks follow that order.
C18_TiesKeepInputOrder ==
    recalc = "ok" =>
        \A i \in DOMAIN ret : \A j \in DOMAIN ret :
            (i < j /\ Differing(ret[i], ret[j]) = {}) =>
                /\ ret[i].player_id < ret[j].player_id
                /\ ret[i].current_rank < ret[j].current_rank
                /\ \A t \in Tournaments :
                       /\ RowOf(t, ret[i].player_id).current_rank = ret[i].current_rank
                       /\ RowOf(t, ret[j].player_id).current_rank = ret[j].current_rank

\* players 1 and 2 were both recorded first of the same game and are equal on
\* every criterion; the recalculation ranked them 1 and 2
C18_Witness ==
    /\ recalc = "ok"
    /\ Len(ret) = LobbySize
    /\ ret[1].player_id = 1 /\ ret[2].player_id = 2
    /\ ret[1].first_places = 1 /\ ret[2].first_places = 1
    /\ Differing(ret[1], ret[2]) = {}
    /\ \E row \in tournament_stats : row.player_id = 2 /\ row.current_rank = 2

\* the fact of a non-empty set of one player's facts that closes the player's
\* last day: greatest game_number among the facts of the greatest day_number
ClosingFact(facts) ==
    CHOOSE f \in facts :
        \A g \in facts :
            \/ g.day_number < f.day_number
            \/ g.day_number = f.day_number /\ g.game_number <= f.game_number

\* C19: end_of_day_placement of a player is the placement of the player's
\* fact with the greatest game_number among the facts of the player's
\* greatest day_number, whenever the facts were recorded.
C19_EndOfDayPlacement ==
    recalc = "ok" =>
        \A t \in Tournaments : \A i \in DOMAIN ret :
            LET p == ret[i].player_id
            IN  /\ FactsOf(t, p) # {}
                /\ ret[i].end_of_day_placement
                       = ClosingFact(FactsOf(t, p)).placement
                /\ RowOf(t, p).end_of_day_placement
                       = ClosingFact(FactsOf(t, p)).placement

\* a game of day 1 was recorded after the game of day 2: the player's last
\* recorded placement is of day 1, the end-of-day placement is of day 2
C19_Witness ==
    /\ recalc = "ok"
    /\ \E t \in Tournaments : \E i \in DOMAIN ret :
           \E f \in FactsOf(t, ret[i].player_id) :
               \E g \in FactsOf(t, ret[i].player_id) :
                   /\ f.day_number = 2 /\ g.day_number = 1
                   /\ f.created_at < g.created_at
                   /\ ret[i].end_of_day_placement = f.placement
                   /\ ret[i].last_game_placement = g.placement
                   /\ f.placement # g.placement

\* the number of facts of player p in tournament t placed in 1..worst
PlacedWithin(t, p, worst) ==
    Cardinality({f \in FactsOf(t, p) : ~Less(worst, f.placement)})

\* C20: in every aggregate a recalculation produces, top_four_count is the
\* number of the player's facts with placement <= 4 and top_four_plus_firsts
\* is top_four_count plus first_places, the first places counting twice; the
\* persisted row carries the same values.
C20_TopFourPlusFirsts ==
    recalc = "ok" =>
        \A t \in Tournaments : \A i \in DOMAIN ret :
            LET p == ret[i].player_id
            IN  /\ ret[i].top_four_count = PlacedWithin(t, p, 4)
                /\ ret[i].first_places = PlacedWithin(t, p, 1)
                /\ ret[i].top_four_plus_firsts
                       = ret[i].top_four_count + ret[i].first_places
                /\ ret[i].top_four_plus_firsts
                       = PlacedWithin(t, p, 4) + PlacedWithin(t, p, 1)
                /\ RowOf(t, p).top_four_count = ret[i].top_four_count
                /\ RowOf(t, p).top_four_plus_firsts
                       = ret[i].top_four_plus_firsts

\* C21: the comparator is antisymmetric: for all aggregates a and b,
\* compare(a, b) equals -compare(b, a).
C21_Antisymmetric ==
    cmp # <<>> =>
        \A i \in DOMAIN cmp : \A j \in DOMAIN cmp : cmp[i][j] = -cmp[j][i]

\* the comparator was called both ways on two players that differ in points
\* and on two that differ in the last placement alone
C21_Witness ==
    /\ cmp # <<>>
    /\ triple[1].total_points > triple[2].total_points
    /\ cmp[1][2] < 0 /\ cmp[2][1] > 0
    /\ Min(Differing(triple[2], triple[3]) \cup {16}) = 11
    /\ cmp[2][3] > 0 /\ cmp[3][2] < 0

\* C22: the comparator is transitive (compare(a, b) <= 0 and
\* compare(b, c) <= 0 give compare(a, c) <= 0) and returns 0 only for
\* aggregates that are equal on every one of the fifteen key fields.
C22_TransitiveConsistent ==
    cmp # <<>> =>
        /\ \A i \in DOMAIN cmp : \A j \in DOMAIN cmp : \A k \in DOMAIN cmp :
               (cmp[i][j] <= 0 /\ cmp[j][k] <= 0) => cmp[i][k] <= 0
        /\ \A i \in DOMAIN cmp : \A j \in DOMAIN cmp :
               cmp[i][j] = 0 => Criteria(triple[i]) = Criteria(triple[j])

\* three players decided by three different criteria: 1 before 2 on points,
\* 2 before 3 on the last placement, and 1 before 3
C22_Witness ==
    /\ cmp # <<>>
    /\ cmp[1][2] < 0 /\ cmp[2][3] < 0 /\ cmp[1][3] < 0
    /\ Min(Differing(triple[1], triple[2]) \cup {16}) = 1
    /\ Min(Differing(triple[2], triple[3]) \cup {16}) = 11

\* C23: under any interleaving of submitGameResults and updateGameResult
\* handlers, two handlers on the same game included, the ledger never holds
\* two facts of the same (tournament, day, game) with the same placement.
C23_NoSharedPlacement ==
    \A r1 \in game_results : \A r2 \in game_results :
        ( /\ r1.tournament_id = r2.tournament_id
          /\ r1.day_number = r2.day_number
          /\ r1.game_number = r2.game_number
          /\ r1.placement = r2.placement ) => r1 = r2

\* C24: a call of submitGameResults that answers with a failure leaves none
\* of its facts in the ledger: facts committed by a submission come with the
\* success response.
C24_FailureLeavesNoFacts ==
    [][(request'.kind = "submit" /\ response' # 201)
          => game_results' = game_results]_vars

\* C25: two aggregates of a recalculation that are equal on points,
\* top_four_plus_firsts and the eight placement counts have the same
\* games_played and hold the sentinel 9 in the same recent-placement slots.
C25_EqualCountsSameGames ==
    recalc = "ok" =>
        \A i \in DOMAIN ret : \A j \in DOMAIN ret :
            (\A k \in 1..10 : Criteria(ret[i])[k] = Criteria(ret[j])[k]) =>
                /\ ret[i].games_played = ret[j].games_played
                /\ \A n \in DOMAIN RecentSlots :
                       (ret[i][RecentSlots[n]] = Sentinel)
                           <=> (ret[j][RecentSlots[n]] = Sentinel)

\* the ids of the facts of a ledger
IdsOf(ledger) == {f.id : f \in ledger}

\* C26: in every ledger state each fact's points is 9 minus its placement;
\* a call of updateGameResult changes the placement and the points of the
\* fact it names and nothing else: the fact keeps its tournament, player,
\* day, game and created_at, and every other fact stays as it was.
C26_UpdateTouchesOneFact ==
    [][/\ \A f \in game_results' : f.points = Minus(9, f.placement)
       /\ (IdsOf(game_results') = IdsOf(game_results)
              /\ game_results' # game_results) =>
             \E old \in game_results : \E new \in game_results' :
                 /\ game_results' \ {new} = game_results \ {old}
                 /\ new.id = old.id
                 /\ new.tournament_id = old.tournament_id
                 /\ new.player_id = old.player_id
                 /\ new.day_number = old.day_number
                 /\ new.game_number = old.game_number
                 /\ new.created_at = old.created_at
                 /\ new.placement # old.placement
      ]_vars

\* the winner's fact of the first game is gone and a correction has moved
\* the fact of player 2 to first place: it has 8 points and is otherwise the
\* fact that was submitted
C26_Witness ==
    /\ response = 200
    /\ 1 \notin IdsOf(game_results)
    /\ \E r \in game_results :
           /\ r.id = 2 /\ r.player_id = 2
           /\ r.day_number = 1 /\ r.game_number = 1
           /\ r.placement = 1 /\ r.points = 8
    /\ \E r \in game_results : r.id = 3 /\ r.placement = 3 /\ r.points = 6

\* C27: once a tournament is completed, submitGameResults, updateGameResult
\* and deleteGameResult are rejected, so while it stays completed its facts
\* and its persisted snapshot do not change.
C27_CompletedIsFrozen ==
    [][\A t \in Tournaments :
          (tournaments[t] = "completed" /\ tournaments'[t] = "completed") =>
              /\ RowsOf(game_results', t) = RowsOf(game_results, t)
              /\ RowsOf(tournament_stats', t) = RowsOf(tournament_stats, t)
      ]_vars

----------------------------------------------------------------------------
\* the standings a recalculation from scratch gives tournament t
FromScratch(t) ==
    LET fresh == SortedStats(t, game_results)
    IN  {StatsRow(t, fresh[i]) : i \in DOMAIN fresh}

\* C28: once updateStatsForGameResult has completed for a result of the
\* ledger, the persisted standings of the result's tournament are exactly
\* the standings recomputed from scratch from the ledger.
C28_IncrementLeavesNoDrift ==
    (request.kind = "updateStats" /\ recalc = "ok") =>
        \A gameResult \in game_results :
            gameResult.id = request.resultId =>
                Snapshot(gameResult.tournament_id) =
                    FromScratch(gameResult.tournament_id)

----------------------------------------------------------------------------
\* fact f belongs to an earlier game than fact g
EarlierGame(f, g) ==
    \/ f.day_number < g.day_number
    \/ f.day_number = g.day_number /\ f.game_number < g.game_number

\* the later the game of a fact, the later the fact was recorded
RecordedInGameOrder(facts) ==
    \A f, g \in facts : EarlierGame(f, g) => f.created_at < g.created_at

\* C29: for a player whose facts were recorded in increasing (day_number,
\* game_number) order with strictly increasing created_at, a completed
\* recalculation persists a last_game_placement equal to the
\* end_of_day_placement.
C29_LastGameIsEndOfDay ==
    recalc = "ok" =>
        \A t \in Tournaments : \A p \in PlayersWithFacts(t) :
            RecordedInGameOrder(FactsOf(t, p)) =>
                RowOf(t, p).last_game_placement =
                    RowOf(t, p).end_of_day_placement

\* a player has two facts with different placements, the later game recorded
\* a second after the earlier one, and both fields hold the later placement
C29_Witness ==
    /\ recalc = "ok"
    /\ \E t \in Tournaments : \E p \in PlayersWithFacts(t) :
           \E f, g \in FactsOf(t, p) :
               /\ FactsOf(t, p) = {f, g}
               /\ EarlierGame(f, g)
               /\ f.created_at < g.created_at
               /\ f.placement # g.placement
               /\ RowOf(t, p).last_game_placement = g.placement
               /\ RowOf(t, p).end_of_day_placement = g.placement

----------------------------------------------------------------------------
\* live, finals, completed in the order a tournament passes through them
StatusOrder == [live |-> 1, finals |-> 2, completed |-> 3]

\* C30: a refresh of the monitored tournament keeps every eliminated player
\* eliminated, does not raise activePlayers and does not move the status
\* back in the order live, finals, completed.
C30_RefreshOnlyMovesForward ==
    [][(request'.kind = "refresh" /\ monitorStore # NoMonitor) =>
          /\ \A p \in DOMAIN monitorStore.players :
                 monitorStore.players[p].eliminated =>
                     monitorStore'.players[p].eliminated
          /\ monitorStore'.activePlayers <= monitorStore.activePlayers
          /\ StatusOrder[monitorStore'.status] >=
                 StatusOrder[monitorStore.status]]_vars

\* a refresh has left the tournament in the finals, with a player eliminated
\* after a match at time 0 and another still active after a match at time 3
C30_Witness ==
    /\ request.kind = "refresh"
    /\ response = 200
    /\ monitorStore.status = "finals"
    /\ \E p, q \in DOMAIN monitorStore.players :
           /\ monitorStore.players[p].eliminated
           /\ monitorStore.players[p].lastSeen = 0
           /\ ~monitorStore.players[q].eliminated
           /\ monitorStore.players[q].lastSeen = 3

====
